---- MODULE Spec2Model ----
(***************************************************************************)
(* The TidyCal -> LACRM polling sync of lacrm-onedrive-webhook             *)
(* (POST /tidycal-sync) and its LACRM webhook (POST /), as state machines. *)
(* One request handler is one pass; every `await` of the handler is one    *)
(* step of the pass.  The persisted state is the two Firestore collections *)
(* (syncState/tidycal, processedBookings/<id>); TidyCal, the CRM and       *)
(* OneDrive are the environment.                                           *)
(*                                                                         *)
(* Specifications.  Spec holds the clock still and gives the loop every    *)
(* input (every shape of booking, CRM answer and failure); SpecClock moves *)
(* the clock between and during the passes, over well-formed inputs;       *)
(* SpecList runs passes over a fixed booking list of every make-up         *)
(* (boundary creation times, defective records, repeated ids);             *)
(* SpecScenario is the end-to-end scenario of one booking; SpecRace lets   *)
(* two passes overlap; SpecHook is the webhook with every request;         *)
(* SpecNames is the webhook over the display names of contacts.            *)
(*                                                                         *)
(* Timestamps.  A Date is a number of milliseconds; an ISO-8601 string as  *)
(* written by toISOString() carries exactly those milliseconds, so the     *)
(* model writes a timestamp string as its millisecond value.  Missing (0)  *)
(* is the absent / null / empty value (falsy in JavaScript) and            *)
(* InvalidDate (-1) is a string that Date cannot parse (NaN).              *)
(***************************************************************************)
EXTENDS Integers, Sequences, FiniteSets, TLC

\* ------------------------------------------------------------- bounds
\* Bookings the source ever lists, when the clock stands still.
MaxBookings == 2
\* Bookings the source ever lists, when the clock moves.
MaxVisible == 1
\* One-minute clock steps after the start and after each long wait.
MaxTicks == 1
\* Long waits.
MaxWaits == 1
MaxTail == 3
MaxRacing == 1
\* Records of the booking list, when the list is given from the start.
MaxListed == 2

\* ---------------------------------------------------------- constants
Missing == 0
\* A non-empty cancelled_at: the code reads the field for its truthiness only.
Cancelled == 1
InvalidDate == 0 - 1
overlapMs == 2 * 60 * 1000
bootstrapMs == 60 * 60 * 1000
\* The clock's granularity in the model, and its first value.
TickMs == 60 * 1000
LongMs == bootstrapMs + overlapMs
Epoch == 4 * LongMs

\* The two request handlers that may be in flight; a deployment whose
\* scheduler has concurrency 1 only ever uses the first.
Handlers == {1, 2}

\* What the environment may send.
JobTokens == {"", "s3cret", "wrong"}
EmailInputs == {"", "  ", "a@x.com"}
NameInputs == {"", " A "}
QuestionInputs ==
  { <<>>,
    <<[question |-> "Join the Mailing list?", answer |-> "Yes please"]>>,
    <<[question |-> "Anything for the meeting?", answer |-> " Budget "]>>,
    <<[question |-> "Join the Mailing list?", answer |-> "Maybe"]>>,
    <<[question |-> "mailing list", answer |-> " YES PLEASE "]>> }
SearchResponses ==
  { <<>>,
    <<[ContactId |-> 7, Email |-> <<"A@X.COM">>]>>,
    <<[ContactId |-> Missing, Email |-> <<"a@x.com">>]>>,
    <<[ContactId |-> 8, Email |-> <<"b@y.com">>]>>,
    <<[ContactId |-> 8, Email |-> <<"b@y.com">>],
      [ContactId |-> 7, Email |-> <<"b@y.com", "A@x.com">>]>> }
CreatedContactIds == {9}
PipelineItemIds == {Missing, 55}
ResponseShapes == {"array", "data", "bookings", "other"}

\* ------------------------------------------------------ string helpers
\* A trim that trims nothing, which C6 must tell from Trim.
TrimNothing(s) == s

\* String.prototype.trim on the strings of the model.
Trim(s) ==
  CASE s = "  " -> ""
    [] s = " A " -> "A"
    [] s = " Budget " -> "Budget"
    [] s = " YES PLEASE " -> "YES PLEASE"
    [] s = " yes please " -> "yes please"
    [] OTHER -> s

\* String.prototype.toLowerCase on the strings of the model.
ToLowerCase(s) ==
  CASE s = "A@X.COM" -> "a@x.com"
    [] s = "A@x.com" -> "a@x.com"
    [] s = "Join the Mailing list?" -> "join the mailing list?"
    [] s = "Anything for the meeting?" -> "anything for the meeting?"
    [] s = "Yes please" -> "yes please"
    [] s = "No thank you" -> "no thank you"
    [] s = "Budget" -> "budget"
    [] s = "Maybe" -> "maybe"
    [] s = "YES PLEASE" -> "yes please"
    [] s = " YES PLEASE " -> " yes please "
    [] OTHER -> s

\* s.includes(word) on the question titles of the model, lower-cased or as
\* received.
Includes(s, word) ==
  \/ word = "mailing" /\ s \in {"join the mailing list?", "mailing list"}
  \/ word = "meeting" /\ s \in {"anything for the meeting?",
                                 "Anything for the meeting?"}

\* new Date(x).toISOString()
safeIso(d) == d

\* new Date(s): the milliseconds of a timestamp string, NaN when unparsable.
DateParse(s) == IF s = InvalidDate THEN InvalidDate ELSE s

\* A comparison that also holds of equal dates, which C21 must tell from
\* DateGt.
DateGtOrSame(a, b) == a # InvalidDate /\ b # InvalidDate /\ a >= b

\* a > b on two Dates: false when either is NaN.
DateGt(a, b) == a # InvalidDate /\ b # InvalidDate /\ a > b

RECURSIVE parseFrom(_, _, _, _)
parseFrom(questions, i, blogAnswer, userMessage) ==
  IF i > Len(questions)
  THEN [blogAnswer |-> blogAnswer, userMessage |-> userMessage]
  ELSE LET qText == ToLowerCase(questions[i].question)
           answer == Trim(questions[i].answer)
       IN  IF answer = ""
           THEN parseFrom(questions, i + 1, blogAnswer, userMessage)
           ELSE IF Includes(qText, "mailing")
           THEN IF ToLowerCase(answer) \in {"yes please", "no thank you"}
                THEN parseFrom(questions, i + 1, answer, userMessage)
                ELSE parseFrom(questions, i + 1, blogAnswer, userMessage)
           ELSE IF Includes(qText, "meeting")
           THEN parseFrom(questions, i + 1, blogAnswer, answer)
           ELSE parseFrom(questions, i + 1, blogAnswer, userMessage)

\* A parse that takes the last answer for the mailing-list answer, which
\* C30 must tell from parseTidycalQuestions.
parseLastAnswer(questions) ==
  [blogAnswer |-> IF questions = <<>> THEN ""
                  ELSE Trim(questions[Len(questions)].answer),
   userMessage |-> ""]

parseTidycalQuestions(questions) == parseFrom(questions, 1, "", "")

\* ------------------------------------------------------------- state
VARIABLES
  clock,      \* Date.now()
  jobToken,   \* process.env.JOB_TOKEN ("" when not configured)
  source,     \* the booking list TidyCal answers with
  lastSync,   \* Firestore syncState/tidycal .lastSyncIso (Missing: no document)
  processed,  \* Firestore processedBookings: bookingId -> document
  pass,       \* per handler: the locals of its request
  crm,        \* the CRM: the bookings it has created a contact for, and
              \* those it has created a pipeline item for
  firstCutoff,  \* history: the cutoff of the first pass that computed one
  hook        \* the webhook receiver (POST /): LACRM_HOOK_SECRET and the
              \* locals of its request

vars == <<clock, jobToken, source, lastSync, processed, pass, crm,
          firstCutoff, hook>>

\* What the polling sync reads and writes.
syncVars == <<clock, jobToken, source, lastSync, processed, pass, crm,
              firstCutoff>>

\* `email` and `name` are the Email and Name (SearchTerms for a search) it
\* was given, `blog` the value of the blog field ("" when the call has no
\* such field), `results` the Results and `id` the ContactId or
\* PipelineItemId of its response.
NoCall ==
  [fn |-> "", booking |-> Missing, ok |-> FALSE, email |-> "", name |-> "",
   blog |-> "", results |-> <<>>, id |-> Missing]

\* The locals of a request, and three history fields: call (the latest CRM
\* call of the request), acted (the bookings the request had a contact
\* created or edited or a pipeline item created for) and marked (the bookings
\* it wrote a processedBookings document for); wmAtStart is lastSync as it
\* was when the request arrived.
NoResponse == [ok |-> FALSE, shape |-> ""]

\* `response` is TidyCal's answer as tidycalFetchBookings has just received
\* it (a success status with a body that parses, and the shape of the body);
\* the step after the fetch forgets it.
IdlePass ==
  [questions |-> <<>>, blogAnswer |-> "", userMessage |-> "",
   email |-> "", name |-> "",
   pc |-> "idle", status |-> 0, got |-> "", response |-> NoResponse,
   nowIso |-> Missing, lastSyncIso |-> Missing,
   cutoff |-> Missing, bookings |-> <<>>, idx |-> 0,
   fetched |-> 0, candidates |-> 0,
   createdContacts |-> 0, updatedContacts |-> 0, pipelineItems |-> 0,
   skipped |-> 0, contactId |-> Missing,
   call |-> NoCall, wmAtStart |-> Missing, acted |-> {}, marked |-> {}]

\* ---- folder names (strings as sequences of characters)
MaxNameLen == 100

\* The characters of /[\\\/:\*\?"<>\|#%]/ and those of \s the model has.
Forbidden == {"\\", "/", ":", "*", "?", "\"", "<", ">", "|", "#", "%"}
Whitespace == {" ", "\t", "\n"}

NewContact == <<"N", "e", "w", " ", "C", "o", "n", "t", "a", "c", "t">>

\* .replace(/[\\\/:\*\?"<>\|#%]/g, " ")
ReplaceForbidden(s) ==
  [i \in 1..Len(s) |-> IF s[i] \in Forbidden THEN " " ELSE s[i]]

\* .replace(/\s+/g, " ") on the characters lo..hi of s: of a run of
\* whitespace the first character becomes a space and the others go.
RECURSIVE CollapseRange(_, _, _)
CollapseRange(s, lo, hi) ==
  IF lo > hi THEN <<>>
  ELSE IF lo = hi
  THEN IF s[lo] \notin Whitespace THEN <<s[lo]>>
       ELSE IF lo > 1 /\ s[lo - 1] \in Whitespace THEN <<>>
       ELSE <<" ">>
  ELSE LET mid == (lo + hi) \div 2
       IN  CollapseRange(s, lo, mid) \o CollapseRange(s, mid + 1, hi)

CollapseWhitespace(s) == CollapseRange(s, 1, Len(s))

\* String.prototype.trim on a sequence of characters.
TrimChars(s) ==
  LET solid == {i \in 1..Len(s) : s[i] \notin Whitespace}
  IN  IF solid = {} THEN <<>>
      ELSE SubSeq(s, CHOOSE i \in solid : \A j \in solid : i <= j,
                     CHOOSE i \in solid : \A j \in solid : j <= i)

\* A slice that cuts nothing, which C15 must tell from Slice.
SliceNothing(s, n) == s

\* .slice(0, n)
Slice(s, n) == IF Len(s) <= n THEN s ELSE SubSeq(s, 1, n)

\* safeFolderName(name); a missing name is falsy like the empty string.
safeFolderName(name) ==
  Slice(TrimChars(CollapseWhitespace(ReplaceForbidden(
          IF name = <<>> THEN NewContact ELSE name))), MaxNameLen)

\* The display names: none or 99 letters, then up to MaxTail characters.
Alphabet == {"a", " ", "\t", "/"}
Padding(k) == [i \in 1..k |-> "a"]
Tails(n) == UNION {[1..m -> Alphabet] : m \in 0..n}
DisplayNames == {Padding(k) \o t : k \in {0, MaxNameLen - 1},
                                   t \in Tails(MaxTail)}

\* The contact of a GetContact response: Name a string, or an object with
\* FirstName and LastName, and CompanyName ("" for what it lacks).
StringContact(n) ==
  [string |-> TRUE, Name |-> n, FirstName |-> <<>>, LastName |-> <<>>,
   CompanyName |-> <<>>]
ObjectContact(f, l, c) ==
  [string |-> FALSE, Name |-> <<>>, FirstName |-> f, LastName |-> l,
   CompanyName |-> c]
ContactsNamed(names) == {StringContact(n) : n \in names}
ObjectContacts ==
  {ObjectContact(f, l, c) : f \in {<<>>, <<"A">>}, l \in {<<>>, <<"B">>},
                            c \in {<<>>, <<"C", "/", "o">>}}

\* displayName of the webhook handler.
DisplayNameOf(contact) ==
  IF contact.string THEN contact.Name
  ELSE IF contact.FirstName # <<>> \/ contact.LastName # <<>>
  THEN TrimChars(contact.FirstName \o <<" ">> \o contact.LastName)
  ELSE IF contact.CompanyName # <<>> THEN contact.CompanyName
  ELSE NewContact

\* ---- the webhook receiver's requests
\* The raw body: none, bytes that are no JSON, or a JSON payload with its
\* TriggeringEvent and the ContactIds of its Contacts.
NoBody == [kind |-> "none", event |-> "", contacts |-> <<>>]
Bodies ==
  { NoBody,
    [kind |-> "text", event |-> "", contacts |-> <<>>],
    [kind |-> "json", event |-> "Contact.Create", contacts |-> <<21, 22>>],
    [kind |-> "json", event |-> "Contact.Create", contacts |-> <<22>>],
    [kind |-> "json", event |-> "Contact.Create", contacts |-> <<>>],
    [kind |-> "json", event |-> "Contact.Update", contacts |-> <<21>>] }

\* crypto.createHmac("sha256", secret).update(body).digest("hex"): the
\* digest stands for the pair it was computed from (no collisions).
Hmac(secret, body) == [key |-> secret, of |-> body]

\* An absent X-Hook-Signature ("" in the code).
NoSignature == [key |-> "", of |-> NoBody]

\* A comparison that takes any non-empty signature, which C13 must tell from
\* timingSafeEq.
timingSafeEqAny(a, b) == b # NoSignature

\* timingSafeEq(a, b): equal lengths and equal bytes.
timingSafeEq(a, b) == a = b

HookSecrets == {"", "k1"}

\* The signatures a request may carry for its body: none, the right one, one
\* under another secret or under the empty secret, one of another body.
SignaturesFor(body) ==
  { NoSignature, Hmac("k1", body), Hmac("k2", body), Hmac("", body),
    Hmac("k1", [kind |-> "json", event |-> "Contact.Create",
                contacts |-> <<23>>]) }

NoRequest == [body |-> NoBody, hookSecret |-> "", signature |-> NoSignature]

\* The receiver at rest: `secret` is LACRM_HOOK_SECRET ("" when not
\* configured), `calls` the external calls of the request so far, `answer`
\* the body of the response.
IdleHook(secret) ==
  [answer |-> "", pc |-> "idle", status |-> 0, contactId |-> Missing,
   secret |-> secret, req |-> NoRequest, displayName |-> <<>>,
   calls |-> <<>>]

Init ==
  /\ hook = IdleHook("k1")
  /\ clock = Epoch
  /\ jobToken \in {"", "s3cret"}
  /\ source = <<>>
  /\ lastSync = Missing
  /\ processed = [x \in {} |-> Missing]
  /\ pass = [p \in Handlers |-> IdlePass]
  /\ crm = [contacts |-> {}, items |-> {}]
  /\ firstCutoff = Missing

\* ------------------------------------------------------- environment
\* The source moves between requests.  A request reads it once, at the
\* fetch, so a move during a request is the same move made right before the
\* request (when it comes before the fetch) or right after it.
Quiet == \A p \in DOMAIN pass : pass[p].pc = "idle"

\* The clock moves between requests and while a request waits for the
\* watermark or for the booking list.  The handler reads it at its start, for
\* the bootstrap default after the watermark is read, and for processedAtIso,
\* which nothing reads back.
Waiting == \A p \in DOMAIN pass : pass[p].pc \in {"idle", "getLastSync", "fetch"}

\* A minute passes.
Tick(maxTicks) ==
  /\ Waiting
  /\ (clock - Epoch) % LongMs < maxTicks * TickMs
  /\ clock' = clock + TickMs
  /\ UNCHANGED <<hook, jobToken, source, lastSync, processed, pass, crm,
                 firstCutoff>>

\* Nothing happens for longer than the bootstrap window reaches back.
LongWait(maxWaits) ==
  /\ Quiet
  /\ (clock - Epoch) \div LongMs < maxWaits
  /\ clock' = clock + LongMs
  /\ UNCHANGED <<hook, jobToken, source, lastSync, processed, pass, crm,
                 firstCutoff>>

\* Somebody books: the booking shows in the list from its creation on.
AddBooking(maxBookings) ==
  /\ Quiet
  /\ Len(source) < maxBookings
  /\ source' = Append(source, [id |-> Len(source) + 1, created_at |-> clock,
                               cancelled_at |-> Missing])
  /\ UNCHANGED <<hook, clock, jobToken, lastSync, processed, pass, crm,
                 firstCutoff>>

\* A booking is cancelled.
CancelBooking(i) ==
  /\ Quiet
  /\ i \in 1..Len(source)
  /\ source[i].cancelled_at = Missing
  /\ source' = [source EXCEPT ![i].cancelled_at = Cancelled]
  /\ UNCHANGED <<hook, clock, jobToken, lastSync, processed, pass, crm,
                 firstCutoff>>

\* ------------------------------------------------------ pure helpers
\* A token check that lets every request through while JOB_TOKEN is not
\* configured, which C12 must tell from requireJobToken.
requireJobTokenIfSet(got) ==
  IF jobToken # "" /\ got # jobToken THEN 403 ELSE Missing

\* requireJobToken: the status it answers with, Missing when it lets through.
requireJobToken(got) ==
  IF jobToken = "" THEN 500
  ELSE IF got # jobToken THEN 403
  ELSE Missing

\* Cutoffs that the properties below must tell from CutoffOf: one without the
\* overlap, one that always takes the bootstrap default.
CutoffAtWatermark(lastSyncIso, now) ==
  IF lastSyncIso # Missing THEN DateParse(lastSyncIso) ELSE now - bootstrapMs

CutoffAlwaysBootstrap(lastSyncIso, now) == now - bootstrapMs - overlapMs

\* A cutoff whose bootstrap default is `now`, which C25 must tell from
\* CutoffOf.
CutoffBootstrapNow(lastSyncIso, now) ==
  (IF lastSyncIso # Missing THEN DateParse(lastSyncIso) ELSE now) - overlapMs

\* lastSyncDate.getTime() - overlapMs, with the bootstrap default of one hour
\* before `now` when no watermark is stored.
CutoffOf(lastSyncIso, now) ==
  LET lastSyncDate == IF lastSyncIso # Missing THEN DateParse(lastSyncIso)
                      ELSE now - bootstrapMs
  IN  lastSyncDate - overlapMs

\* A filter that does not look at cancelled_at, which C5 must tell from
\* IsCandidate.
IsCandidateCancelledToo(b, cutoff) ==
  /\ b.id # Missing
  /\ b.created_at # Missing
  /\ DateGt(DateParse(b.created_at), cutoff)

\* The filter of the fetched list: recent and not cancelled.
IsCandidate(b, cutoff) ==
  /\ b.id # Missing
  /\ b.created_at # Missing
  /\ b.cancelled_at = Missing
  /\ DateGt(DateParse(b.created_at), cutoff)

CandidatesOf(bookings, cutoff) ==
  SelectSeq(bookings, LAMBDA b : IsCandidate(b, cutoff))

Candidates(p) == CandidatesOf(pass[p].bookings, pass[p].cutoff)

\* A fetch that takes a body of another shape for an empty list, which C24
\* must tell from tidycalFetchBookings.
tidycalFetchBookingsLenient(ok, shape) ==
  IF ok /\ shape \in {"array", "data", "bookings"}
  THEN [threw |-> FALSE, value |-> source]
  ELSE IF ok THEN [threw |-> FALSE, value |-> <<>>]
  ELSE [threw |-> TRUE, value |-> <<>>]

\* tidycalFetchBookings: the list under one of the known shapes, or a throw.
tidycalFetchBookings(ok, shape) ==
  IF ok /\ shape \in {"array", "data", "bookings"}
  THEN [threw |-> FALSE, value |-> source]
  ELSE [threw |-> TRUE, value |-> <<>>]

\* A booking id of the feed is a JSON number n, here n, or a JSON string
\* of the digits of n, here TextId(n).
TextId(n) == 0 - n

\* A conversion that keeps the number and the string of the same digits
\* apart, which C29 must tell from String.
StringKeepingType(id) == id

\* String(booking.id): a number and the string of its digits give the same
\* document id.
String(id) == IF id < 0 THEN 0 - id ELSE id

\* A check that never finds the document, which C7 must tell from
\* wasProcessed.
wasProcessedNever(bookingId) == FALSE

wasProcessed(bookingId) == bookingId \in DOMAIN processed

\* A markProcessed that leaves the new document alone in the collection,
\* which C22 must tell from markProcessed.
markProcessedAlone(bookingId, createdAtIso) ==
  [x \in {bookingId} |->
     [createdAtIso |-> createdAtIso, processedAtIso |-> safeIso(clock)]]

\* A markProcessed that stores nothing, which C11 must tell from
\* markProcessed.
markProcessedNothing(bookingId, createdAtIso) == processed

\* The processedBookings collection after markProcessed(bookingId, createdAtIso).
markProcessed(bookingId, createdAtIso) ==
  [x \in DOMAIN processed \cup {bookingId} |->
     IF x = bookingId
     THEN [createdAtIso |-> createdAtIso, processedAtIso |-> safeIso(clock)]
     ELSE processed[x]]

\* The CRM after it has created a contact or a pipeline item for a booking.
Created(bookingId, kind) == [crm EXCEPT ![kind] = @ \cup {bookingId}]

\* Variants of setLastSyncIso that the properties below must tell from it:
\* one that stores a value behind the stored one, one that stores before it
\* fails, one that stores the time of the write.
setLastSyncIsoBehind(iso, ok) ==
  IF ~ok THEN lastSync
  ELSE IF lastSync # Missing THEN lastSync - overlapMs ELSE iso

setLastSyncIsoThenThrow(iso, ok) == iso

setLastSyncIsoAtWrite(iso, ok) == IF ok THEN safeIso(clock) ELSE lastSync

\* syncState/tidycal .lastSyncIso after setLastSyncIso(iso): a write that
\* throws has stored nothing.
setLastSyncIso(iso, ok) == IF ok THEN iso ELSE lastSync

\* A match that minds letter case, which C14 must tell from EmailMatches.
EmailMatchesExactly(c, email) == \E k \in 1..Len(c.Email) : c.Email[k] = email

\* c.Email.some(e => e.Text.toLowerCase() === email.toLowerCase())
EmailMatches(c, email) ==
  \E k \in 1..Len(c.Email) : ToLowerCase(c.Email[k]) = ToLowerCase(email)

\* results.find(...): the position of the first match, 0 when there is none.
FindMatch(results, email) ==
  LET hits == {k \in 1..Len(results) : EmailMatches(results[k], email)}
  IN  IF hits = {} THEN 0 ELSE CHOOSE k \in hits : \A j \in hits : k <= j

Active == {"getLastSync", "fetch", "wasProcessed", "markSkipped", "search",
           "edit", "create", "pipeline", "mark", "setLastSync"}
InLoop == {"wasProcessed", "markSkipped", "search", "edit", "create",
           "pipeline", "mark"}

\* The booking the loop is at.
Booking(p) == Candidates(p)[pass[p].idx]

\* A catch block that swallows the error and goes on to the watermark, which
\* C17 must tell from Caught.
CaughtAndWentOn(r) == [r EXCEPT !.pc = "setLastSync"]

\* The catch block: console.error and status 500.  The handler has returned:
\* its locals are gone.
Caught(r) ==
  [IdlePass EXCEPT !.pc = "failed", !.status = 500, !.wmAtStart = r.wmAtStart]

\* The process is gone, and the handler's locals with it.
Killed(r) ==
  [IdlePass EXCEPT !.pc = "killed", !.wmAtStart = r.wmAtStart,
                   !.call = r.call, !.acted = r.acted, !.marked = r.marked]

\* An answer that reports the finished pass with the status of an error,
\* which C26 must tell from Answered.
AnsweredAsError(r, n) ==
  [IdlePass EXCEPT !.pc = "done", !.status = 500,
                   !.lastSyncIso = r.lastSyncIso, !.nowIso = r.nowIso,
                   !.fetched = Len(r.bookings), !.candidates = n,
                   !.wmAtStart = r.wmAtStart]

\* An answer that reports the number of fetched bookings as the number of
\* candidates, which C28 must tell from Answered.
AnsweredCountingFetched(r, n) ==
  [IdlePass EXCEPT !.pc = "done", !.status = 200,
                   !.lastSyncIso = r.lastSyncIso, !.nowIso = r.nowIso,
                   !.fetched = Len(r.bookings),
                   !.candidates = Len(r.bookings),
                   !.createdContacts = r.createdContacts,
                   !.updatedContacts = r.updatedContacts,
                   !.pipelineItems = r.pipelineItems, !.skipped = r.skipped,
                   !.wmAtStart = r.wmAtStart]

\* res.status(200).json({ok, lastSyncWas, nowIso, fetched, candidates, ...}):
\* what the answer carries stays, the other locals are gone.
Answered(r, n) ==
  [IdlePass EXCEPT !.pc = "done", !.status = 200,
                   !.lastSyncIso = r.lastSyncIso, !.nowIso = r.nowIso,
                   !.fetched = Len(r.bookings), !.candidates = n,
                   !.createdContacts = r.createdContacts,
                   !.updatedContacts = r.updatedContacts,
                   !.pipelineItems = r.pipelineItems, !.skipped = r.skipped,
                   !.wmAtStart = r.wmAtStart]

\* A loop that jumps over the candidate after the one it has handled, which
\* C23 must tell from Continue.
ContinueOverNext(r, n) ==
  [r EXCEPT !.idx = r.idx + 2,
            !.pc = IF r.idx + 2 > n THEN "setLastSync" ELSE "wasProcessed"]

\* `continue` / the end of the loop body: on to the next candidate, or past
\* the loop to the watermark write.
Continue(r, n) ==
  [r EXCEPT !.idx = r.idx + 1,
            !.pc = IF r.idx + 1 > n THEN "setLastSync" ELSE "wasProcessed"]

\* ------------------------------------------------------------ the pass
\* got is the X-Job-Token header as received ("" when absent).
\* A local that no later statement of the loop body reads is dropped at once
\* (email and name after the contact is found or created, the questions and
\* blogAnswer after the contact call, userMessage and contactId after the pipeline call).

\* POST /tidycal-sync arrives: the token check and the pass-start timestamp.
Start(p, got) ==
  /\ pass[p].pc = "idle"
  /\ pass' = [pass EXCEPT ![p] =
       IF requireJobToken(got) # Missing
       THEN [IdlePass EXCEPT !.pc = "rejected", !.got = got,
                             !.status = requireJobToken(got)]
       ELSE [IdlePass EXCEPT !.pc = "getLastSync", !.got = got,
                             !.nowIso = safeIso(clock),
                             !.wmAtStart = lastSync]]
  /\ UNCHANGED <<hook, clock, jobToken, source, lastSync, processed, crm,
                 firstCutoff>>

\* await getLastSyncIso(), then lastSyncDate and cutoff.
GetLastSync(p, ok) ==
  /\ pass[p].pc = "getLastSync"
  /\ IF ok
     THEN /\ pass' = [pass EXCEPT ![p].lastSyncIso = lastSync,
                                  ![p].cutoff = CutoffOf(lastSync, clock),
                                  ![p].pc = "fetch"]
          /\ firstCutoff' = IF firstCutoff = Missing
                            THEN CutoffOf(lastSync, clock) ELSE firstCutoff
     ELSE /\ pass' = [pass EXCEPT ![p] = Caught(@)]
          /\ UNCHANGED firstCutoff
  /\ UNCHANGED <<hook, clock, jobToken, source, lastSync, processed, crm>>

\* await tidycalFetchBookings(), the filter and the counters.
Fetch(p, ok, shape) ==
  /\ pass[p].pc = "fetch"
  /\ LET got == tidycalFetchBookings(ok, shape)
         n == Len(CandidatesOf(got.value, pass[p].cutoff))
         res == [ok |-> ok, shape |-> shape]
     IN  pass' = [pass EXCEPT ![p] =
           IF got.threw THEN [Caught(@) EXCEPT !.response = res]
           ELSE [@ EXCEPT !.bookings = got.value, !.idx = 1,
                          !.response = res,
                          !.pc = IF n = 0 THEN "setLastSync" ELSE "wasProcessed"]]
  /\ UNCHANGED <<hook, clock, jobToken, source, lastSync, processed, crm,
                 firstCutoff>>

\* await wasProcessed(bookingId); when there is no record, the contact's
\* email and name and the parsed questions of the booking (the source's
\* answer carries them; the model draws them here, where they are read).
WasProcessed(p, ok, emailIn, nameIn, questionsIn) ==
  /\ pass[p].pc = "wasProcessed"
  /\ LET r == [pass[p] EXCEPT !.response = NoResponse]
         bookingId == String(Booking(p).id)
         email == Trim(emailIn)
         parsed == parseTidycalQuestions(questionsIn)
     IN  pass' = [pass EXCEPT ![p] =
           IF ~ok THEN Caught(r)
           ELSE IF wasProcessed(bookingId)
           THEN Continue([r EXCEPT !.skipped = @ + 1], Len(Candidates(p)))
           ELSE IF email = ""
           THEN [r EXCEPT !.pc = "markSkipped"]
           ELSE [r EXCEPT !.pc = "search", !.email = email,
                          !.name = Trim(nameIn),
                          !.questions = questionsIn,
                          !.blogAnswer = parsed.blogAnswer,
                          !.userMessage = parsed.userMessage]]
  /\ UNCHANGED <<hook, clock, jobToken, source, lastSync, processed, crm,
                 firstCutoff>>

\* No usable email: await markProcessed(...), skipped++, continue.
MarkSkipped(p, ok) ==
  /\ pass[p].pc = "markSkipped"
  /\ LET r == pass[p]
         b == Booking(p)
     IN  IF ok
         THEN /\ processed' = markProcessed(String(b.id),
                                             safeIso(b.created_at))
              /\ pass' = [pass EXCEPT ![p] =
                   Continue([r EXCEPT !.skipped = @ + 1,
                                      !.marked = @ \cup {String(b.id)}],
                            Len(Candidates(p)))]
         ELSE /\ pass' = [pass EXCEPT ![p] = Caught(r)]
              /\ UNCHANGED processed
  /\ UNCHANGED <<hook, clock, jobToken, source, lastSync, crm,
                 firstCutoff>>

\* await lacrmCall("GetContacts", ...) and the match by email.
Search(p, ok, results) ==
  /\ pass[p].pc = "search"
  /\ LET r == pass[p]
         m == FindMatch(results, r.email)
         c == [NoCall EXCEPT !.fn = "GetContacts",
                            !.booking = String(Booking(p).id),
                             !.ok = ok, !.email = r.email,
                             !.results = results]
     IN  pass' = [pass EXCEPT ![p] =
           IF ~ok THEN Caught(r)
           ELSE IF m # 0 /\ results[m].ContactId # Missing
           THEN [r EXCEPT !.contactId = results[m].ContactId,
                          !.updatedContacts = @ + 1,
                          !.pc = IF r.blogAnswer # "" THEN "edit"
                                 ELSE "pipeline",
                          !.email = "", !.name = "",
                          !.questions = IF r.blogAnswer # "" THEN @
                                        ELSE <<>>,
                          !.call = c]
           ELSE [r EXCEPT !.pc = "create", !.call = c]]
  /\ UNCHANGED <<hook, clock, jobToken, source, lastSync, processed, crm,
                 firstCutoff>>

\* await lacrmCall("EditContact", ...): the Blog field of a matched contact.
EditContact(p, ok) ==
  /\ pass[p].pc = "edit"
  /\ LET r == pass[p]
         b == Booking(p)
         c == [NoCall EXCEPT !.fn = "EditContact",
                            !.booking = String(b.id),
                             !.ok = ok, !.id = r.contactId,
                             !.blog = r.blogAnswer]
     IN  pass' = [pass EXCEPT ![p] =
           IF ~ok THEN Caught(r)
           ELSE [r EXCEPT !.pc = "pipeline", !.questions = <<>>,
                          !.blogAnswer = "", !.call = c,
                          !.acted = @ \cup {String(b.id)}]]
  /\ UNCHANGED <<hook, clock, jobToken, source, lastSync, processed, crm,
                 firstCutoff>>

\* await lacrmCall("CreateContact", ...).
CreateContact(p, ok, newId) ==
  /\ pass[p].pc = "create"
  /\ LET r == pass[p]
         b == Booking(p)
         c == [NoCall EXCEPT !.fn = "CreateContact",
                            !.booking = String(b.id),
                             !.ok = ok, !.email = r.email,
                             !.name = IF r.name # "" THEN r.name ELSE r.email,
                             !.blog = r.blogAnswer, !.id = newId]
     IN  /\ crm' = IF ok THEN Created(String(b.id), "contacts") ELSE crm
         /\ pass' = [pass EXCEPT ![p] =
              IF ~ok THEN Caught(r)
              ELSE [r EXCEPT !.contactId = newId,
                             !.createdContacts = @ + 1, !.pc = "pipeline",
                             !.email = "", !.name = "", !.questions = <<>>,
                             !.blogAnswer = "", !.call = c,
                             !.acted = @ \cup {String(b.id)}]]
  /\ UNCHANGED <<hook, clock, jobToken, source, lastSync, processed,
                 firstCutoff>>

\* A pipeline step that looks for the document again and skips the booking
\* when another pass has written it meanwhile, which C18 must tell from
\* CreatePipelineItem.
CreatePipelineItemUnlessMarked(p, ok, itemId) ==
  /\ pass[p].pc = "pipeline"
  /\ LET r == pass[p]
         b == Booking(p)
         c == [NoCall EXCEPT !.fn = "CreatePipelineItem",
                            !.booking = String(b.id),
                             !.ok = ok, !.id = itemId]
     IN  IF String(b.id) \in DOMAIN processed
         THEN /\ pass' = [pass EXCEPT ![p] = Continue(r, Len(Candidates(p)))]
              /\ crm' = crm
         ELSE /\ crm' = IF ok THEN Created(String(b.id), "items") ELSE crm
              /\ pass' = [pass EXCEPT ![p] =
                   IF ~ok THEN Caught(r)
                   ELSE [r EXCEPT !.pipelineItems = IF itemId # Missing
                                                    THEN @ + 1 ELSE @,
                                  !.pc = "mark", !.userMessage = "",
                                  !.contactId = Missing, !.call = c,
                                  !.acted = @ \cup {String(b.id)}]]
  /\ UNCHANGED <<hook, clock, jobToken, source, lastSync, processed,
                 firstCutoff>>

\* A pipeline step that goes on to the next candidate, writing no document,
\* when the response carries no PipelineItemId, which C20 must tell from
\* CreatePipelineItem.
CreatePipelineItemMarkedOnlyWithId(p, ok, itemId) ==
  /\ pass[p].pc = "pipeline"
  /\ LET r == pass[p]
         b == Booking(p)
         c == [NoCall EXCEPT !.fn = "CreatePipelineItem",
                            !.booking = String(b.id),
                             !.ok = ok, !.id = itemId]
         t == [r EXCEPT !.pipelineItems = IF itemId # Missing
                                          THEN @ + 1 ELSE @,
                        !.pc = "mark", !.userMessage = "",
                        !.contactId = Missing, !.call = c,
                        !.acted = @ \cup {String(b.id)}]
     IN  /\ crm' = IF ok THEN Created(String(b.id), "items") ELSE crm
         /\ pass' = [pass EXCEPT ![p] =
              IF ~ok THEN Caught(r)
              ELSE IF itemId = Missing THEN Continue(t, Len(Candidates(p)))
              ELSE t]
  /\ UNCHANGED <<hook, clock, jobToken, source, lastSync, processed,
                 firstCutoff>>

\* await lacrmCall("CreatePipelineItem", ...) and the pipelineItems counter.
CreatePipelineItem(p, ok, itemId) ==
  /\ pass[p].pc = "pipeline"
  /\ LET r == pass[p]
         b == Booking(p)
         c == [NoCall EXCEPT !.fn = "CreatePipelineItem",
                            !.booking = String(b.id),
                             !.ok = ok, !.id = itemId]
     IN  /\ crm' = IF ok THEN Created(String(b.id), "items") ELSE crm
         /\ pass' = [pass EXCEPT ![p] =
              IF ~ok THEN Caught(r)
              ELSE [r EXCEPT !.pipelineItems = IF itemId # Missing
                                               THEN @ + 1 ELSE @,
                             !.pc = "mark", !.userMessage = "",
                             !.contactId = Missing, !.call = c,
                             !.acted = @ \cup {String(b.id)}]]
  /\ UNCHANGED <<hook, clock, jobToken, source, lastSync, processed,
                 firstCutoff>>

\* await markProcessed(...), the last statement of the loop body.
MarkProcessed(p, ok) ==
  /\ pass[p].pc = "mark"
  /\ LET r == pass[p]
         b == Booking(p)
     IN  IF ok
         THEN /\ processed' = markProcessed(String(b.id), safeIso(b.created_at))
              /\ pass' = [pass EXCEPT ![p] =
                   Continue([r EXCEPT !.marked = @ \cup {String(b.id)}],
                            Len(Candidates(p)))]
         ELSE /\ pass' = [pass EXCEPT ![p] = Caught(r)]
              /\ UNCHANGED processed
  /\ UNCHANGED <<hook, clock, jobToken, source, lastSync, crm,
                 firstCutoff>>

\* await setLastSyncIso(nowIso) and the 200 answer.
SetLastSync(p, ok) ==
  /\ pass[p].pc = "setLastSync"
  /\ lastSync' = setLastSyncIso(pass[p].nowIso, ok)
  /\ pass' = [pass EXCEPT ![p] =
       IF ok THEN Answered(@, Len(Candidates(p))) ELSE Caught(@)]
  /\ UNCHANGED <<hook, clock, jobToken, source, processed, crm, firstCutoff>>

\* The instance is killed (request deadline, scale-down): no catch, no answer.
Kill(p) ==
  /\ pass[p].pc \in Active
  /\ pass' = [pass EXCEPT ![p] = Killed(@)]
  /\ UNCHANGED <<hook, clock, jobToken, source, lastSync, processed, crm,
                 firstCutoff>>

\* The answer is sent (or the killed instance is replaced): the handler's
\* frame is gone.
Finish(p) ==
  /\ pass[p].pc \in {"rejected", "failed", "killed", "done"}
  /\ pass' = [pass EXCEPT ![p] = IdlePass]
  /\ UNCHANGED <<hook, clock, jobToken, source, lastSync, processed, crm,
                 firstCutoff>>

\* --------------------------------------------------------- the webhook
\* res.status(status).send(answer): the request is over.
Respond(h, status, answer) ==
  [h EXCEPT !.pc = "answered", !.status = status, !.answer = answer]

\* POST / arrives: handshake, signature check, JSON.parse and the event
\* filter, up to the first await.  update(rawBody) throws when the request
\* has no body (express.raw leaves req.body an object): no answer is sent.
Receive(req) ==
  /\ hook.pc = "idle"
  /\ LET h == [hook EXCEPT !.req = req, !.calls = <<>>, !.status = 0,
                           !.answer = "", !.contactId = Missing,
                           !.displayName = <<>>]
         computed == Hmac(hook.secret, req.body)
     IN  hook' =
           IF req.hookSecret # "" THEN Respond(h, 200, "ok")
           ELSE IF hook.secret = ""
           THEN Respond(h, 500, "Missing LACRM_HOOK_SECRET env var")
           ELSE IF req.body.kind = "none" THEN [h EXCEPT !.pc = "threw"]
           ELSE IF ~timingSafeEq(computed, req.signature)
           THEN Respond(h, 401, "Bad signature")
           ELSE IF req.body.kind # "json" THEN Respond(h, 400, "Invalid JSON")
           ELSE IF req.body.event # "Contact.Create"
                   \/ Len(req.body.contacts) = 0
           THEN Respond(h, 200, "ignored")
           ELSE [h EXCEPT !.pc = "getContact",
                          !.contactId = req.body.contacts[1]]
  /\ UNCHANGED syncVars

\* The handler after one more external call; `name` is the folder name a
\* folder creation asks for, `ok` whether the call succeeds.
Called(h, fn, name, ok) ==
  [h EXCEPT !.calls = Append(@, [fn |-> fn, ok |-> ok, name |-> name,
                                 contact |-> h.contactId])]

\* A catch block that goes on to the contact update, which C27 must tell
\* from Thrown.
ThrownThenEdit(h) == [h EXCEPT !.pc = "edit"]

\* The catch block of the webhook: 500 "error".
Thrown(h) == Respond(h, 500, "error")

\* await lacrmCall("GetContact", ...) and the display name.
GetContact(ok, contact) ==
  /\ hook.pc = "getContact"
  /\ LET h == Called(hook, "GetContact", <<>>, ok)
     IN  hook' = IF ~ok THEN Thrown(h)
                 ELSE [h EXCEPT !.pc = "token",
                                !.displayName = DisplayNameOf(contact)]
  /\ UNCHANGED syncVars

\* createOneDriveFolder: await getMsAccessToken().
TokenExchange(ok) ==
  /\ hook.pc = "token"
  /\ LET h == Called(hook, "token", <<>>, ok)
     IN  hook' = IF ~ok THEN Thrown(h) ELSE [h EXCEPT !.pc = "folder"]
  /\ UNCHANGED syncVars

\* createOneDriveFolder: the Graph request for a folder named
\* safeFolderName(folderName).
CreateFolder(ok) ==
  /\ hook.pc = "folder"
  /\ LET h == Called(hook, "createFolder", safeFolderName(hook.displayName), ok)
     IN  hook' = IF ~ok THEN Thrown(h) ELSE [h EXCEPT !.pc = "edit"]
  /\ UNCHANGED syncVars

\* await lacrmCall("EditContact", ...) with the folder's webUrl; 200 "ok".
EditFolderUrl(ok) ==
  /\ hook.pc = "edit"
  /\ LET h == Called(hook, "EditContact", <<>>, ok)
     IN  hook' = IF ~ok THEN Thrown(h) ELSE Respond(h, 200, "ok")
  /\ UNCHANGED syncVars

\* The response is sent (or the throw has ended the request).
HookDone ==
  /\ hook.pc \in {"answered", "threw"}
  /\ hook' = IdleHook(hook.secret)
  /\ UNCHANGED syncVars

InitHook ==
  /\ hook \in {IdleHook(k) : k \in HookSecrets}
  /\ clock = Epoch
  /\ jobToken = "s3cret"
  /\ source = <<>>
  /\ lastSync = Missing
  /\ processed = [x \in {} |-> Missing]
  /\ pass = [p \in Handlers |-> IdlePass]
  /\ crm = [contacts |-> {}, items |-> {}]
  /\ firstCutoff = Missing

NextHook ==
  \/ \E hs \in {"", "hs"}, b \in Bodies : \E sig \in SignaturesFor(b) :
        Receive([body |-> b, hookSecret |-> hs, signature |-> sig])
  \/ \E ok \in BOOLEAN,
        c \in ContactsNamed({<<>>, <<"A", "/", "B">>}) \cup ObjectContacts :
        GetContact(ok, c)
  \/ \E ok \in BOOLEAN : TokenExchange(ok)
  \/ \E ok \in BOOLEAN : CreateFolder(ok)
  \/ \E ok \in BOOLEAN : EditFolderUrl(ok)
  \/ HookDone

\* The webhook receiver alone.
SpecHook == InitHook /\ [][NextHook]_vars

\* One handler of two that run at the same time: every call succeeds.
StepRace(p) ==
  \/ Start(p, "s3cret")
  \/ GetLastSync(p, TRUE)
  \/ Fetch(p, TRUE, "array")
  \/ WasProcessed(p, TRUE, "a@x.com", " A ", <<>>)
  \/ \E res \in {<<>>, <<[ContactId |-> 7, Email |-> <<"A@X.COM">>]>>} :
        Search(p, TRUE, res)
  \/ CreateContact(p, TRUE, 9)
  \/ CreatePipelineItem(p, TRUE, 55)
  \/ MarkProcessed(p, TRUE)
  \/ SetLastSync(p, TRUE)
  \/ Finish(p)

NextRace ==
  \/ AddBooking(MaxRacing)
  \/ Tick(MaxTicks)
  \/ \E p \in Handlers : StepRace(p)

\* Two requests handled at the same time (two instances, or one instance
\* with two requests in flight), their awaits interleaved.
SpecRace == Init /\ [][NextRace]_vars

\* A signed Contact.Create event for contact 21.
SignedCreate ==
  LET b == [kind |-> "json", event |-> "Contact.Create", contacts |-> <<21>>]
  IN  [body |-> b, hookSecret |-> "", signature |-> Hmac("k1", b)]

InitNames ==
  /\ hook = IdleHook("k1")
  /\ clock = Epoch
  /\ jobToken = "s3cret"
  /\ source = <<>>
  /\ lastSync = Missing
  /\ processed = [x \in {} |-> Missing]
  /\ pass = [p \in Handlers |-> IdlePass]
  /\ crm = [contacts |-> {}, items |-> {}]
  /\ firstCutoff = Missing

NextNames ==
  \/ Receive(SignedCreate)
  \/ \E ok \in BOOLEAN, c \in ContactsNamed(DisplayNames) : GetContact(ok, c)
  \/ \E ok \in BOOLEAN : TokenExchange(ok)
  \/ \E ok \in BOOLEAN : CreateFolder(ok)
  \/ \E ok \in BOOLEAN : EditFolderUrl(ok)
  \/ HookDone

\* The webhook receiver on signed Contact.Create events, for contacts of
\* every display name.
SpecNames == InitNames /\ [][NextNames]_vars

\* The source's moves.
Environment(maxBookings) ==
  \/ AddBooking(maxBookings)
  \/ \E i \in 1..maxBookings : CancelBooking(i)

\* The clock's moves.
Time ==
  \/ Tick(MaxTicks)
  \/ LongWait(MaxWaits)

Step(p) ==
  \/ \E got \in JobTokens : Start(p, got)
  \/ \E ok \in BOOLEAN : GetLastSync(p, ok)
  \/ \E ok \in BOOLEAN, shape \in ResponseShapes : Fetch(p, ok, shape)
  \/ \E ok \in BOOLEAN, e \in EmailInputs, n \in NameInputs,
        q \in QuestionInputs : WasProcessed(p, ok, e, n, q)
  \/ \E ok \in BOOLEAN : MarkSkipped(p, ok)
  \/ \E ok \in BOOLEAN, res \in SearchResponses : Search(p, ok, res)
  \/ \E ok \in BOOLEAN : EditContact(p, ok)
  \/ \E ok \in BOOLEAN, c \in CreatedContactIds : CreateContact(p, ok, c)
  \/ \E ok \in BOOLEAN, i \in PipelineItemIds : CreatePipelineItem(p, ok, i)
  \/ \E ok \in BOOLEAN : MarkProcessed(p, ok)
  \/ \E ok \in BOOLEAN : SetLastSync(p, ok)
  \/ Kill(p)
  \/ Finish(p)

\* The same steps over one well-formed booking list and CRM answer of each
\* kind (every call may still fail).
StepPlain(p) ==
  \/ Start(p, "s3cret")
  \/ \E ok \in BOOLEAN : GetLastSync(p, ok)
  \/ \E ok \in BOOLEAN : Fetch(p, ok, "array")
  \/ \E ok \in BOOLEAN, e \in {"", "a@x.com"} :
        WasProcessed(p, ok, e, " A ",
          <<[question |-> "Join the Mailing list?", answer |-> "Yes please"]>>)
  \/ \E ok \in BOOLEAN : MarkSkipped(p, ok)
  \/ \E ok \in BOOLEAN,
        res \in {<<>>, <<[ContactId |-> 7, Email |-> <<"A@X.COM">>]>>} :
        Search(p, ok, res)
  \/ \E ok \in BOOLEAN : EditContact(p, ok)
  \/ \E ok \in BOOLEAN : CreateContact(p, ok, 9)
  \/ \E ok \in BOOLEAN : CreatePipelineItem(p, ok, 55)
  \/ \E ok \in BOOLEAN : MarkProcessed(p, ok)
  \/ \E ok \in BOOLEAN : SetLastSync(p, ok)
  \/ Kill(p)
  \/ Finish(p)

\* Passes one after the other (a single handler, as under a scheduler with
\* concurrency 1) while the clock stands still: every input of the loop.
Next == Environment(MaxBookings) \/ Step(1)

Spec == Init /\ [][Next]_vars

\* Passes one after the other while the clock moves.
NextClock == AddBooking(MaxVisible) \/ Time \/ StepPlain(1)

SpecClock == Init /\ [][NextClock]_vars

\* The records a booking list may hold: booking 1 created exactly at the
\* bootstrap cutoff of a first pass at Epoch, exactly at the cutoff of a pass
\* that finds the watermark Epoch, or a minute before Epoch; booking 2; one
\* record for each defect (no id, no created_at, a created_at that is no date,
\* cancelled); and one whose id is the string "1".  Ids may repeat.
ListedRecords ==
  { [id |-> 1, created_at |-> c, cancelled_at |-> Missing] :
      c \in {Epoch - LongMs, Epoch - overlapMs, Epoch - TickMs} }
  \cup
  { [id |-> 2, created_at |-> Epoch - TickMs, cancelled_at |-> Missing],
    [id |-> Missing, created_at |-> Epoch - TickMs, cancelled_at |-> Missing],
    [id |-> 1, created_at |-> Missing, cancelled_at |-> Missing],
    [id |-> 1, created_at |-> InvalidDate, cancelled_at |-> Missing],
    [id |-> 1, created_at |-> Epoch - TickMs, cancelled_at |-> Cancelled],
    [id |-> TextId(1), created_at |-> Epoch - TickMs,
     cancelled_at |-> Missing] }

InitList ==
  /\ hook = IdleHook("k1")
  /\ clock = Epoch
  /\ jobToken = "s3cret"
  /\ source \in UNION {[1..n -> ListedRecords] : n \in 0..MaxListed}
  /\ lastSync = Missing
  /\ processed = [x \in {} |-> Missing]
  /\ pass = [p \in Handlers |-> IdlePass]
  /\ crm = [contacts |-> {}, items |-> {}]
  /\ firstCutoff = Missing

NextList == (Quiet /\ Tick(MaxTicks)) \/ StepPlain(1)

\* Passes one after the other over a booking list that does not change, of
\* every make-up, the first pass at Epoch or later; the clock moves between
\* the passes.
SpecList == InitList /\ [][NextList]_vars

\* The end-to-end scenario: the source answers every fetch with booking 1
\* (created 30 seconds before the first request, a@x.com, name A, no contact
\* of that email in the CRM) and booking 2 (cancelled, no created_at).
ScenarioSource ==
  << [id |-> 1, created_at |-> Epoch - 30 * 1000, cancelled_at |-> Missing],
     [id |-> 2, created_at |-> Missing, cancelled_at |-> Cancelled] >>

InitScenario ==
  /\ hook = IdleHook("k1")
  /\ clock = Epoch
  /\ jobToken = "s3cret"
  /\ source = ScenarioSource
  /\ lastSync = Missing
  /\ processed = [x \in {} |-> Missing]
  /\ pass = [p \in Handlers |-> IdlePass]
  /\ crm = [contacts |-> {}, items |-> {}]
  /\ firstCutoff = Missing

StepScenario(p) ==
  \/ Start(p, "s3cret")
  \/ \E ok \in BOOLEAN : GetLastSync(p, ok)
  \/ \E ok \in BOOLEAN : Fetch(p, ok, "array")
  \/ \E ok \in BOOLEAN : WasProcessed(p, ok, "a@x.com", "A", <<>>)
  \/ \E ok \in BOOLEAN : Search(p, ok, <<>>)
  \/ \E ok \in BOOLEAN : CreateContact(p, ok, 9)
  \/ \E ok \in BOOLEAN : CreatePipelineItem(p, ok, 55)
  \/ \E ok \in BOOLEAN : MarkProcessed(p, ok)
  \/ \E ok \in BOOLEAN : SetLastSync(p, ok)
  \/ Kill(p)
  \/ Finish(p)

\* Half a minute passes, while booking 1 is still younger than the overlap
\* window: the requests of the scenario follow one another at once or
\* shortly.
ScenarioTick ==
  /\ Waiting
  /\ clock + 30 * 1000 < ScenarioSource[1].created_at + overlapMs
  /\ clock' = clock + 30 * 1000
  /\ UNCHANGED <<hook, jobToken, source, lastSync, processed, pass, crm,
                 firstCutoff>>

NextScenario == ScenarioTick \/ StepScenario(1)

SpecScenario == InitScenario /\ [][NextScenario]_vars

\* ------------------------------------------------------------ properties
\* The step of handler p that has just answered (or died) did so in one of
\* these ways; Moved(p) is a step of handler p.
Moved(p) == pass'[p] # pass[p]
Went(p, from, to) == pass[p].pc = from /\ pass'[p].pc = to

\* C1 (at-most-once over passes run one after the other, a retry after a
\* failed pass included): no CreatePipelineItem call is made, and answered
\* with success, for a booking the CRM has already created a pipeline item
\* for.  (Whether a second CreateContact follows as well depends on what the
\* CRM's search answers in the retry; the second pipeline item does not.)
C1_AtMostOnce ==
  [][\A p \in Handlers :
       Went(p, "pipeline", "mark") => Booking(p).id \notin crm.items]_vars

\* C2 (monotonic watermark): once a watermark is stored, no step removes it
\* or stores an earlier one.
C2_WatermarkMonotonic ==
  [][lastSync # Missing => lastSync' # Missing /\ lastSync' >= lastSync]_vars

\* A successful pass has stored a watermark later than the one it found.
C2_Witness ==
  \E p \in Handlers :
    /\ pass[p].pc = "done"
    /\ pass[p].wmAtStart # Missing
    /\ lastSync > pass[p].wmAtStart

\* C3 (a failed pass leaves the watermark untouched): when the catch block
\* has answered 500, whichever step threw, the stored watermark is the one
\* the request found.
C3_FailedPassKeepsWatermark ==
  \A p \in Handlers : pass[p].pc = "failed" => lastSync = pass[p].wmAtStart

\* A pass has failed after it wrote a processedBookings document.
C3_Witness ==
  \E p \in Handlers :
    /\ pass[p].pc = "failed"
    /\ DOMAIN processed # {}
    /\ lastSync = Missing

\* C4 (overlap safety): in a pass that read a stored watermark T, every
\* fetched booking that has an id, is not cancelled and was created in
\* (T - 2 minutes, T] is among the candidates.
C4_OverlapSafety ==
  \A p \in Handlers :
    pass[p].pc \in InLoop \cup {"setLastSync"} /\ pass[p].lastSyncIso # Missing =>
      \A i \in 1..Len(pass[p].bookings) :
        LET b == pass[p].bookings[i]
        IN  /\ b.id # Missing
            /\ b.cancelled_at = Missing
            /\ b.created_at > pass[p].lastSyncIso - 2 * 60 * 1000
            /\ b.created_at <= pass[p].lastSyncIso
            => \E j \in 1..Len(Candidates(p)) : Candidates(p)[j] = b

\* The loop is at a booking created before the stored watermark.
C4_Witness ==
  \E p \in Handlers :
    /\ pass[p].pc = "wasProcessed"
    /\ pass[p].lastSyncIso # Missing
    /\ Booking(p).created_at < pass[p].lastSyncIso

\* The fetched bookings of handler p that are cancelled.
CancelledFetched(p) ==
  {pass[p].bookings[i].id : i \in
     {k \in 1..Len(pass[p].bookings) : pass[p].bookings[k].cancelled_at # Missing}}

\* C5 (cancellation exclusion): a fetched booking with a non-empty
\* cancelled_at is no candidate, and no step of the pass creates a contact or
\* a pipeline item for it, names it in a CRM call or writes its
\* processedBookings document.
C5_CancelledExcluded ==
  [][\A p \in Handlers : \A id \in CancelledFetched(p) :
       /\ \A j \in 1..Len(Candidates(p)) : Candidates(p)[j].id # id
       /\ Moved(p) =>
            /\ id \in crm'.contacts => id \in crm.contacts
            /\ id \in crm'.items => id \in crm.items
            /\ id \in pass'[p].acted => id \in pass[p].acted
            /\ id \in pass'[p].marked => id \in pass[p].marked
            /\ pass'[p].call.booking = id => pass'[p].call = pass[p].call
            /\ id \in DOMAIN processed' =>
                 id \in DOMAIN processed /\ processed'[id] = processed[id]]_vars

\* A pass has gone through its candidates with a cancelled booking, created
\* after the cutoff, in its fetched list.
C5_Witness ==
  \E p \in Handlers :
    /\ pass[p].pc = "setLastSync"
    /\ pass[p].acted # {}
    /\ \E i \in 1..Len(pass[p].bookings) :
         /\ pass[p].bookings[i].cancelled_at # Missing
         /\ pass[p].bookings[i].created_at > pass[p].cutoff

\* The strings that are blank after trimming.
Blank == {"", "  "}

\* C6 (missing-email forward progress): a contact search is only made with
\* an email that is not blank; the step that handles a candidate without
\* record and without usable email writes its processedBookings document,
\* adds one to skipped and makes no CRM call; and a pass that later finds the
\* document moves on without retrying the booking.
C6_MissingEmail ==
  [][\A p \in Handlers :
       /\ pass[p].pc \in {"search", "create"} => pass[p].email \notin Blank
       /\ pass[p].pc = "markSkipped" /\ Moved(p)
          /\ pass'[p].pc \notin {"failed", "killed"} =>
            /\ Booking(p).id \notin DOMAIN processed
            /\ Booking(p).id \in DOMAIN processed'
            /\ pass'[p].skipped = pass[p].skipped + 1
            /\ pass'[p].call = pass[p].call
            /\ pass'[p].acted = pass[p].acted
            /\ crm' = crm
       /\ pass[p].pc = "wasProcessed" /\ Moved(p)
          /\ Booking(p).id \in DOMAIN processed =>
            pass'[p].pc \in {"wasProcessed", "setLastSync", "failed", "killed"}]_vars

\* A pass is at a candidate that an earlier pass skipped for its missing
\* email: it has a document and the CRM was never asked to create anything
\* for it.
C6_Witness ==
  \E p \in Handlers :
    /\ pass[p].pc = "wasProcessed"
    /\ Booking(p).id \in DOMAIN processed
    /\ Booking(p).id \notin crm.items
    /\ pass[p].wmAtStart # Missing

\* C7 (no side effect for a booking with a ProcessedRecord): the step that
\* finds the processedBookings document of a candidate adds one to skipped
\* and goes to the next candidate; it makes no CRM call, writes no document
\* and changes no other counter.
C7_RecordedIsSkipped ==
  [][\A p \in Handlers :
       /\ pass[p].pc = "wasProcessed"
       /\ Booking(p).id \in DOMAIN processed
       /\ Moved(p)
       /\ pass'[p].pc \notin {"failed", "killed"}
       => /\ pass'[p].skipped = pass[p].skipped + 1
          /\ pass'[p].idx = pass[p].idx + 1
          /\ pass'[p].pc \in {"wasProcessed", "setLastSync"}
          /\ pass'[p].call = pass[p].call
          /\ pass'[p].acted = pass[p].acted
          /\ pass'[p].marked = pass[p].marked
          /\ pass'[p].createdContacts = pass[p].createdContacts
          /\ pass'[p].updatedContacts = pass[p].updatedContacts
          /\ pass'[p].pipelineItems = pass[p].pipelineItems
          /\ processed' = processed
          /\ crm' = crm]_vars

\* A pass has skipped a candidate that had a document and a pipeline item
\* from an earlier pass, and has written no document itself.
C7_Witness ==
  \E p \in Handlers :
    /\ pass[p].pc = "setLastSync"
    /\ pass[p].skipped > 0
    /\ pass[p].marked = {}
    /\ pass[p].acted = {}
    /\ crm.items # {}

\* C8 (crash safety): when a pass is killed, every booking it has had a
\* contact created or edited or a pipeline item created for has its
\* processedBookings document, the documents it wrote are those of the
\* bookings it acted on or skipped for a missing email, and the watermark is
\* the one it found.
C8_CrashSafety ==
  \A p \in Handlers :
    pass[p].pc = "killed" =>
      /\ pass[p].acted \subseteq DOMAIN processed
      /\ pass[p].marked \subseteq DOMAIN processed
      /\ lastSync = pass[p].wmAtStart

\* The bookings of the source list that have an id and a created_at and are
\* not cancelled.
Live == {i \in 1..Len(source) :
           /\ source[i].id # Missing
           /\ source[i].created_at # Missing
           /\ source[i].cancelled_at = Missing}

\* C9 as stated (no data loss, counted from the cutoff of the first pass):
\* once a pass has succeeded, every live booking that became visible after
\* the cutoff of the first pass and before the start of the latest successful
\* pass has its processedBookings document.
C9_NoLossSinceFirstPass ==
  lastSync # Missing /\ firstCutoff # Missing =>
    \A i \in Live :
      source[i].created_at > firstCutoff /\ source[i].created_at < lastSync
      => source[i].id \in DOMAIN processed

\* C9 amended (no data loss, counted from the cutoff of the first successful
\* pass): when a pass succeeds, every live booking that became visible
\* before the pass started, and after the cutoff of this pass if it is the
\* first to succeed, or else not before the start of the successful pass
\* before it, has its processedBookings document.
C9_NoLossSinceFirstSuccess ==
  [][\A p \in Handlers :
       Went(p, "setLastSync", "done") =>
         \A i \in Live :
           /\ source[i].created_at < pass[p].nowIso
           /\ IF lastSync = Missing
              THEN source[i].created_at > pass[p].cutoff
              ELSE source[i].created_at >= lastSync
           => source[i].id \in DOMAIN processed]_vars

\* A pass has succeeded after an earlier successful pass, and it wrote the
\* document of a booking that became visible between the starts of the two.
C9_Witness ==
  \E p \in Handlers :
    /\ pass[p].pc = "done"
    /\ pass[p].lastSyncIso # Missing
    /\ \E i \in Live :
         /\ source[i].created_at >= pass[p].lastSyncIso
         /\ source[i].created_at < pass[p].nowIso
         /\ source[i].id \in DOMAIN processed
         /\ processed[source[i].id].processedAtIso >= pass[p].nowIso

\* C10 (the watermark written is the pass-start timestamp): nowIso is the
\* clock when the request arrives and stays as it is until the answer; the
\* stored watermark changes only in the step after the last candidate, and
\* to nowIso; and a fetch that leaves no candidate goes straight to that
\* step.
C10_WatermarkIsPassStart ==
  [][/\ lastSync' # lastSync =>
          \E p \in Handlers : Went(p, "setLastSync", "done")
     /\ \A p \in Handlers :
          /\ Went(p, "idle", "getLastSync") => pass'[p].nowIso = clock
          /\ pass[p].pc \in Active /\ pass'[p].pc \in Active \cup {"done"}
             => pass'[p].nowIso = pass[p].nowIso
          /\ Went(p, "setLastSync", "done") =>
               /\ lastSync' = pass[p].nowIso
               /\ pass[p].idx > Len(Candidates(p))
          /\ pass[p].pc = "fetch" /\ Moved(p)
             /\ pass'[p].pc \notin {"failed", "killed"}
             /\ Len(CandidatesOf(pass'[p].bookings, pass'[p].cutoff)) = 0
             => pass'[p].pc = "setLastSync"]_vars

\* A pass whose fetched list held no candidate has succeeded, after the
\* clock moved during the pass: the stored watermark is the earlier
\* timestamp.
C10_Witness ==
  \E p \in Handlers :
    /\ pass[p].pc = "done"
    /\ pass[p].fetched > 0
    /\ pass[p].candidates = 0
    /\ clock > pass[p].nowIso
    /\ lastSync = pass[p].nowIso

\* C11 (end-to-end scenario): over the scenario's source, the pass that
\* handles booking 1 answers fetched=2, candidates=1, createdContacts=1,
\* pipelineItems=1, skipped=0; a pass that finds booking 1 recorded answers
\* fetched=2, candidates=1, skipped=1, createdContacts=0, and has made no
\* CRM call and asked for nothing to be created.
C11_Scenario ==
  [][\A p \in Handlers :
       Went(p, "setLastSync", "done") =>
         /\ pass'[p].fetched = 2
         /\ pass'[p].candidates = 1
         /\ IF pass[p].marked # {}
            THEN /\ pass[p].marked = {1}
                 /\ pass'[p].createdContacts = 1
                 /\ pass'[p].pipelineItems = 1
                 /\ pass'[p].skipped = 0
                 /\ 1 \in DOMAIN processed
            ELSE /\ pass'[p].skipped = 1
                 /\ pass'[p].createdContacts = 0
                 /\ pass'[p].updatedContacts = 0
                 /\ pass'[p].pipelineItems = 0
                 /\ pass[p].call = NoCall
                 /\ pass[p].acted = {}]_vars

\* The second pass of the scenario, run at once after the first, which ran
\* 30 seconds after booking 1 was created, has answered: it found the
\* watermark of the first and skipped booking 1.
C11_Witness ==
  \E p \in Handlers :
    /\ pass[p].pc = "done"
    /\ pass[p].lastSyncIso = Epoch
    /\ pass[p].nowIso = Epoch
    /\ pass[p].fetched = 2
    /\ pass[p].candidates = 1
    /\ pass[p].skipped = 1
    /\ crm = [contacts |-> {1}, items |-> {1}]

Reusable(results, email) ==
  \E k \in 1..Len(results) :
    /\ results[k].ContactId # Missing
    /\ \E j \in 1..Len(results[k].Email) :
         ToLowerCase(results[k].Email[j]) = ToLowerCase(email)

ValidSignature(h) ==
  /\ h.secret # ""
  /\ h.req.signature = Hmac(h.secret, h.req.body)

HookCalling == {"getContact", "token", "folder", "edit"}

\* C13 as stated: every POST / whose X-Hook-Signature is not the HMAC of the
\* raw body under LACRM_HOOK_SECRET is rejected before any processing (it is
\* refused with 401, or 500 when the secret is not configured, or ends in the
\* throw of a request without a body), and without a valid signature no
\* GetContact, token exchange, folder creation or EditContact is ever made.
\* A handshake request with a bad signature is answered 200 "ok".
C13_BadSignatureRejected ==
  ~ValidSignature(hook) =>
    /\ hook.calls = <<>>
    /\ hook.pc \notin HookCalling
    /\ hook.pc = "answered" => hook.status \in {401, 500}

\* C13, amended: a POST / without X-Hook-Secret whose X-Hook-Signature is
\* not the HMAC of the raw body under LACRM_HOOK_SECRET is rejected before
\* any processing, and no request without a valid signature, a handshake
\* included, ever causes one of the four calls.
C13_UnsignedNeverProcessed ==
  ~ValidSignature(hook) =>
    /\ hook.calls = <<>>
    /\ hook.pc \notin HookCalling
    /\ (hook.pc = "answered" /\ hook.req.hookSecret = "")
         => hook.status \in {401, 500}

\* A Contact.Create event for a contact, signed under another secret, has
\* been refused with 401.
C13_Witness ==
  /\ hook.pc = "answered"
  /\ hook.status = 401
  /\ hook.req.signature = Hmac("k2", hook.req.body)
  /\ hook.req.body.event = "Contact.Create"
  /\ Len(hook.req.body.contacts) > 0

\* The names the folder creations of the request have asked for.
FolderNames ==
  {hook.calls[k].name : k \in {j \in 1..Len(hook.calls) :
                                 hook.calls[j].fn = "createFolder"}}

\* C15: the name a folder is created with has none of the characters
\* \ / : * ? " < > | # %, no run of two or more whitespace characters and at
\* most 100 characters; an empty or missing display name gives "New Contact".
C15_FolderNaming ==
  \A f \in FolderNames :
    /\ \A i \in 1..Len(f) : f[i] \notin Forbidden
    /\ \A i \in 1..(Len(f) - 1) :
         ~(f[i] \in Whitespace /\ f[i + 1] \in Whitespace)
    /\ Len(f) <= 100
    /\ hook.displayName = <<>> => f = NewContact

\* A folder has been asked for under a display name of more than 100
\* characters with a forbidden character and a run of whitespace.
C15_Witness ==
  /\ FolderNames # {}
  /\ Len(hook.displayName) > 100
  /\ \E i \in 1..Len(hook.displayName) : hook.displayName[i] \in Forbidden
  /\ \E i \in 1..(Len(hook.displayName) - 1) :
       /\ hook.displayName[i] \in Whitespace
       /\ hook.displayName[i + 1] \in Whitespace

\* C16: deriving the folder name again changes nothing: the name a folder is
\* created with is its own safeFolderName, has no leading or trailing
\* whitespace and is not empty.
C16_FolderNamingIdempotent ==
  \A f \in FolderNames :
    /\ safeFolderName(f) = f
    /\ f # <<>>
    /\ f[1] \notin Whitespace /\ f[Len(f)] \notin Whitespace

\* C17 (fail-fast): a step of the loop either succeeds (the call it made is
\* answered, the document it wrote is there) or ends the pass in the catch
\* block, with status 500 and without touching the watermark, the processed
\* set or the CRM; a failed pass makes no further step but its answer; the
\* watermark is written by the last step of a pass only, and documents
\* written earlier stay.
C17_FailFast ==
  [][\A p \in Handlers :
      LET r == pass[p]
          q == pass'[p]
          on == q.pc \notin {r.pc, "failed", "killed"}
          answered(fn) == /\ q.call.fn = fn /\ q.call.ok
                          /\ q.call.booking = Booking(p).id
      IN  /\ (r.pc \in InLoop /\ q.pc = "failed") =>
               /\ q.status = 500
               /\ lastSync' = lastSync /\ processed' = processed
               /\ crm' = crm
          /\ r.pc = "failed" =>
               /\ q.pc \in {"failed", "idle"}
               /\ lastSync' = lastSync /\ processed' = processed
               /\ crm' = crm
          /\ (r.pc = "search" /\ on) => answered("GetContacts")
          /\ (r.pc = "edit" /\ on) => answered("EditContact")
          /\ (r.pc = "create" /\ on) => answered("CreateContact")
          /\ (r.pc = "pipeline" /\ on) => answered("CreatePipelineItem")
          /\ (r.pc \in {"mark", "markSkipped"} /\ on) =>
               Booking(p).id \in DOMAIN processed'
          /\ (r.pc \in InLoop /\ q.pc = "setLastSync") =>
               r.pc \in {"wasProcessed", "mark", "markSkipped"}
          /\ (lastSync' # lastSync /\ Moved(p)) =>
               r.pc = "setLastSync" /\ q.pc = "done"
          /\ DOMAIN processed \subseteq DOMAIN processed'
    ]_vars

\* A pass has failed at the second booking after the document of the first
\* was written: the document is there and no watermark is.
C17_Witness ==
  /\ pass[1].pc = "failed"
  /\ pass[1].status = 500
  /\ Len(source) = 2
  /\ 1 \in DOMAIN processed
  /\ 2 \notin DOMAIN processed
  /\ lastSync = Missing

\* C18 (nothing serializes two passes): once a pass has found no document
\* for a booking, its CreateContact and CreatePipelineItem calls for that
\* booking are made whatever the other pass has done meanwhile, the
\* document written by the other pass included: the step after the check is
\* never skipped.
C18_NoSerialization ==
  [][\A p \in Handlers :
      LET r == pass[p]
          q == pass'[p]
          b == Booking(p)
      IN  /\ (r.pc = "create" /\ Moved(p)) =>
               /\ q.pc = "pipeline"
               /\ q.call.fn = "CreateContact" /\ q.call.booking = b.id
               /\ q.createdContacts = r.createdContacts + 1
               /\ b.id \in crm'.contacts
          /\ (r.pc = "pipeline" /\ Moved(p)) =>
               /\ q.pc = "mark"
               /\ q.call.fn = "CreatePipelineItem" /\ q.call.booking = b.id
               /\ q.pipelineItems = r.pipelineItems + 1
               /\ b.id \in crm'.items
    ]_vars

\* Both passes have found no document for booking 1 and each has created a
\* contact and a pipeline item for it, before either writes the document.
C18_Witness ==
  /\ 1 \notin DOMAIN processed
  /\ \A p \in Handlers :
       /\ pass[p].pc = "mark"
       /\ pass[p].call.fn = "CreatePipelineItem"
       /\ pass[p].call.booking = 1
       /\ pass[p].call.ok
       /\ pass[p].createdContacts = 1
       /\ pass[p].pipelineItems = 1

\* C19 as stated: also when passes overlap the watermark does not go back:
\* once two successful passes have both finished, the watermark is not
\* earlier than what either of them wrote.  A pass that started first and
\* finishes last writes its earlier pass-start time over the later one.
C19_NoRegressionWhenOverlapping ==
  (\A p \in Handlers : pass[p].pc = "done") =>
    \A p \in Handlers : lastSync >= pass[p].nowIso

\* C20: a candidate whose CreatePipelineItem call did not throw goes on to
\* the write of its document whether or not the response carries a
\* PipelineItemId, the pipelineItems counter goes up by one exactly when it
\* does, and a booking that has a document is not handled again.
C20_MarkedWithoutItemId ==
  [][\A p \in Handlers :
      LET r == pass[p]
          q == pass'[p]
          b == Booking(p)
      IN  /\ (r.pc = "pipeline" /\ q.pc \notin {"pipeline", "failed", "killed"})
               => /\ q.pc = "mark"
                  /\ q.idx = r.idx
                  /\ q.call.fn = "CreatePipelineItem"
                  /\ q.pipelineItems =
                       r.pipelineItems + (IF q.call.id # Missing THEN 1 ELSE 0)
          /\ (r.pc = "mark" /\ q.pc \notin {"mark", "failed", "killed"})
               => /\ b.id \in DOMAIN processed'
                  /\ q.pipelineItems = r.pipelineItems
          /\ (r.pc = "wasProcessed" /\ b.id \in DOMAIN processed)
               => q.pc \notin {"search", "markSkipped"}
    ]_vars

\* The document of a booking has been written after a CreatePipelineItem
\* response without PipelineItemId, and the counter has not moved.
C20_Witness ==
  /\ pass[1].pc \in {"wasProcessed", "setLastSync"}
  /\ pass[1].call.fn = "CreatePipelineItem"
  /\ pass[1].call.ok
  /\ pass[1].call.id = Missing
  /\ pass[1].call.booking \in DOMAIN processed
  /\ pass[1].pipelineItems = 0

\* A record with an id and a created_at, not cancelled, whose created_at is a
\* date strictly later than the cutoff.
Wanted(b, cutoff) ==
  /\ b.id # Missing
  /\ b.created_at # Missing
  /\ b.cancelled_at = Missing
  /\ b.created_at # InvalidDate
  /\ b.created_at > cutoff

\* The records of a list that are Wanted, in the order of the list.
WantedOf(bookings, cutoff) ==
  LET keep == {i \in 1..Len(bookings) : Wanted(bookings[i], cutoff)}
  IN  [k \in 1..Cardinality(keep) |->
         bookings[CHOOSE i \in keep :
                    Cardinality({j \in keep : j <= i}) = k]]

\* C21 (candidate filter): with a stored watermark the cutoff is the
\* watermark less two minutes; the candidates the loop goes through, and
\* counts in its answer, are exactly the fetched records with an id, a
\* created_at, no cancelled_at and a created_at that is a date strictly later
\* than the cutoff, in the order of the source list.
C21_CandidateFilter ==
  [][\A p \in Handlers :
      LET r == pass[p]
          q == pass'[p]
      IN  /\ (r.pc = "getLastSync" /\ q.pc = "fetch" /\ lastSync # Missing)
               => q.cutoff = lastSync - 2 * 60 * 1000
          /\ (r.pc = "fetch" /\ q.pc \in {"wasProcessed", "setLastSync"}) =>
               /\ q.bookings = source
               /\ q.cutoff = r.cutoff
               /\ Candidates(p)' = WantedOf(source, r.cutoff)
               /\ q.pc = "wasProcessed" <=> WantedOf(source, r.cutoff) # <<>>
          /\ (r.pc \in InLoop /\ q.pc \in InLoop) =>
               /\ q.bookings = r.bookings /\ q.cutoff = r.cutoff
               /\ q.idx \in {r.idx, r.idx + 1}
               /\ q.idx <= Len(WantedOf(r.bookings, r.cutoff))
          /\ (r.pc = "setLastSync" /\ q.pc = "done") =>
               q.candidates = Len(WantedOf(r.bookings, r.cutoff))
    ]_vars

\* A pass that found a watermark has fetched a list of a record created
\* exactly at its cutoff and a record created later: only the second is a
\* candidate.
C21_Witness ==
  /\ pass[1].pc = "wasProcessed"
  /\ pass[1].lastSyncIso # Missing
  /\ Len(pass[1].bookings) = 2
  /\ pass[1].bookings[1].created_at = pass[1].cutoff
  /\ pass[1].bookings[1].cancelled_at = Missing
  /\ Candidates(1) = <<pass[1].bookings[2]>>

\* C22 (write-once documents): in passes run one after the other no step
\* removes a processedBookings document or changes its createdAtIso or
\* processedAtIso; the set of recorded ids only grows.
C22_WriteOnce ==
  [][\A id \in DOMAIN processed :
       /\ id \in DOMAIN processed'
       /\ processed'[id] = processed[id]]_vars

\* A later pass, started after the clock has moved, has gone through a list
\* in which booking 1 occurs twice with different creation times and has
\* answered: the document of booking 1 is there as first written.
C22_Witness ==
  /\ pass[1].pc = "done"
  /\ pass[1].skipped = 2
  /\ Len(source) = 2
  /\ source[1].id = 1 /\ source[2].id = 1
  /\ source[2].created_at # source[1].created_at
  /\ DOMAIN processed = {1}
  /\ processed[1].createdAtIso = source[1].created_at
  /\ processed[1].processedAtIso < pass[1].nowIso

\* C23 (sequential, ordered processing): a pass is at one await at a time;
\* for one candidate its steps follow the order processed-set check, search,
\* create or edit, pipeline item, document write, each call being for the
\* candidate the loop is at; the loop moves on by exactly one candidate of
\* the list, and after a document write only with the document written; past
\* the last candidate it goes to the watermark write.
C23_SequentialOrdered ==
  [][\A p \in Handlers :
      LET r == pass[p]
          q == pass'[p]
          n == Len(Candidates(p))
          over == {"failed", "killed"}
          next == IF r.idx < n THEN "wasProcessed" ELSE "setLastSync"
      IN  (r.pc \in InLoop /\ Moved(p) /\ q.pc \notin over) =>
            /\ r.idx \in 1..n
            /\ q.bookings = r.bookings /\ q.cutoff = r.cutoff
            /\ q.pc \in
                 CASE r.pc = "wasProcessed" -> {"search", "markSkipped", next}
                   [] r.pc = "markSkipped" -> {next}
                   [] r.pc = "search" -> {"edit", "create", "pipeline"}
                   [] r.pc = "edit" -> {"pipeline"}
                   [] r.pc = "create" -> {"pipeline"}
                   [] r.pc = "pipeline" -> {"mark"}
                   [] r.pc = "mark" -> {next}
            /\ IF q.pc = next THEN q.idx = r.idx + 1 ELSE q.idx = r.idx
            /\ (q.pc = next /\ r.pc \in {"mark", "markSkipped"}) =>
                 Booking(p).id \in DOMAIN processed'
            /\ (q.pc = next /\ r.pc = "wasProcessed") =>
                 Booking(p).id \in DOMAIN processed
            /\ q.call # r.call => q.call.booking = Booking(p).id
    ]_vars

\* The pass is at the pipeline call of the second candidate of the list, the
\* document of the first written.
C23_Witness ==
  /\ pass[1].pc = "pipeline"
  /\ pass[1].idx = 2
  /\ Len(Candidates(1)) = 2
  /\ Candidates(1)[1].id \in DOMAIN processed
  /\ Candidates(1)[2].id \notin DOMAIN processed
  /\ pass[1].call.booking = Candidates(1)[2].id

\* C24 (booking-list shape): the fetch yields the list when TidyCal answers
\* with success and the body is the array itself or holds it under data or
\* under bookings; for a failure status, a body that does not parse or any
\* other shape the pass ends with status 500, having made no CRM call,
\* written no document and left the watermark as it was.
C24_BookingListShape ==
  [][\A p \in Handlers :
      LET r == pass[p]
          q == pass'[p]
          good == q.response.ok
                  /\ q.response.shape \in {"array", "data", "bookings"}
      IN  (r.pc = "fetch" /\ Moved(p) /\ q.pc # "killed") =>
            /\ q.response.shape \in ResponseShapes
            /\ IF good
               THEN /\ q.pc \in {"wasProcessed", "setLastSync"}
                    /\ q.bookings = source
               ELSE /\ q.pc = "failed"
                    /\ q.status = 500
                    /\ r.call = NoCall /\ q.call = NoCall
                    /\ r.acted = {} /\ r.marked = {}
            /\ lastSync' = lastSync
            /\ processed' = processed
            /\ crm' = crm
    ]_vars

\* A pass has failed on a body of an unknown shape received with a success
\* status, over a list with a booking to handle.
C24_Witness ==
  /\ pass[1].pc = "failed"
  /\ pass[1].response = [ok |-> TRUE, shape |-> "other"]
  /\ Len(source) > 0
  /\ DOMAIN processed = {}
  /\ lastSync = Missing

\* C25 (bootstrap default): a pass that finds no watermark takes the cutoff
\* one hour and two minutes before the clock; every booking it handles was
\* created later than that; the watermark it writes puts the cutoff of a
\* pass that finds it (watermark less two minutes) at or after its own, and a
\* stored watermark is only ever replaced by a later one: a booking created
\* before the bootstrap cutoff of a successful pass is behind the cutoff of
\* every later pass.
C25_BootstrapDefault ==
  [][\A p \in Handlers :
      LET r == pass[p]
          q == pass'[p]
      IN  /\ (r.pc = "getLastSync" /\ q.pc = "fetch") =>
               q.cutoff = IF lastSync = Missing
                          THEN clock - (60 * 60 * 1000 + 2 * 60 * 1000)
                          ELSE lastSync - 2 * 60 * 1000
          /\ (r.pc \in InLoop /\ Moved(p)) =>
               /\ Booking(p).created_at > r.cutoff
               /\ \A i \in 1..Len(r.bookings) :
                    r.bookings[i].created_at < r.cutoff =>
                      r.bookings[i] # Booking(p)
          /\ (r.pc = "setLastSync" /\ q.pc = "done") =>
               /\ lastSync' - 2 * 60 * 1000 >= r.cutoff
               /\ lastSync # Missing => lastSync' >= lastSync
    ]_vars

\* A pass that found a watermark is past its loop, and the booking of the
\* list, created more than an hour and two minutes before that watermark,
\* has been no candidate and has no document.
C25_Witness ==
  /\ pass[1].pc = "setLastSync"
  /\ pass[1].lastSyncIso # Missing
  /\ Len(pass[1].bookings) = 1
  /\ pass[1].bookings[1].created_at < pass[1].lastSyncIso - LongMs
  /\ Candidates(1) = <<>>
  /\ DOMAIN processed = {}

\* C26 (outcome reporting): an authorized request that is not cut short by
\* the end of its instance is answered once, and then does nothing more: with
\* status 200 and the counters exactly when its last step has written the
\* watermark, and with status 500 exactly when a step has thrown, in which
\* case the step has written nothing.
C26_OutcomeReporting ==
  [][\A p \in Handlers :
      LET r == pass[p]
          q == pass'[p]
          n == Len(CandidatesOf(r.bookings, r.cutoff))
      IN  /\ (r.pc \in Active /\ Moved(p)) =>
               /\ q.pc \in Active \cup {"done", "failed", "killed"}
               /\ q.pc \in Active => q.status = 0
               /\ q.pc = "done" <=>
                    (r.pc = "setLastSync" /\ q.pc \notin {"failed", "killed"})
               /\ q.pc = "done" =>
                    /\ q.status = 200
                    /\ lastSync' = r.nowIso /\ q.nowIso = r.nowIso
                    /\ q.lastSyncIso = r.lastSyncIso
                    /\ q.fetched = Len(r.bookings) /\ q.candidates = n
                    /\ q.createdContacts = r.createdContacts
                    /\ q.updatedContacts = r.updatedContacts
                    /\ q.pipelineItems = r.pipelineItems
                    /\ q.skipped = r.skipped
               /\ q.pc = "failed" =>
                    /\ q.status = 500
                    /\ lastSync' = lastSync /\ processed' = processed
                    /\ crm' = crm
               /\ q.pc # "done" => lastSync' = lastSync
          /\ (r.pc \in {"done", "failed"} /\ Moved(p)) =>
               /\ q.pc = "idle"
               /\ lastSync' = lastSync /\ processed' = processed
               /\ crm' = crm
    ]_vars

\* A pass that handled a booking has answered 200 with its counters, the
\* watermark written.
C26_Witness ==
  /\ pass[1].pc = "done"
  /\ pass[1].status = 200
  /\ pass[1].candidates = 1
  /\ pass[1].createdContacts + pass[1].updatedContacts = 1
  /\ lastSync = pass[1].nowIso

\* C28 (counter conservation): in the answer of every successful pass,
\* skipped + createdContacts + updatedContacts = candidates,
\* pipelineItems <= createdContacts + updatedContacts, and
\* candidates <= fetched.
C28_CounterConservation ==
  \A p \in Handlers :
    (pass[p].pc = "done" /\ pass[p].status = 200) =>
      /\ pass[p].skipped + pass[p].createdContacts + pass[p].updatedContacts
           = pass[p].candidates
      /\ pass[p].pipelineItems
           <= pass[p].createdContacts + pass[p].updatedContacts
      /\ pass[p].candidates <= pass[p].fetched

\* A successful pass has answered with two candidates, one of them skipped,
\* the other given a contact and no counted pipeline item.
C28_Witness ==
  /\ pass[1].pc = "done"
  /\ pass[1].status = 200
  /\ pass[1].candidates = 2
  /\ pass[1].skipped = 1
  /\ pass[1].createdContacts + pass[1].updatedContacts = 1
  /\ pass[1].pipelineItems = 0

\* Two ids of the feed that read the same as strings.
SameText(a, b) == a = b \/ a = 0 - b

\* The candidate the pass is at has the id, read as a string, of a candidate
\* the pass has gone past.
Repeated(p) ==
  /\ pass[p].pc \in InLoop
  /\ \E i \in 1..(pass[p].idx - 1) :
       SameText(Candidates(p)[i].id, Booking(p).id)

\* C29 (duplicate identifiers in one response): when a pass is at a
\* candidate whose id, converted to a string, is the id of an earlier
\* candidate of the same pass, the document of that id is there, the pass
\* is at the processed-set check, and its step adds one to skipped and makes
\* no CRM call and no document write (or the check fails and the pass ends).
C29_DuplicateIds ==
  [][\A p \in Handlers :
      LET r == pass[p]
          q == pass'[p]
      IN  Repeated(p) =>
            /\ r.pc = "wasProcessed"
            /\ \E key \in DOMAIN processed : SameText(key, Booking(p).id)
            /\ Moved(p) =>
                 /\ processed' = processed
                 /\ crm' = crm
                 /\ q.pc \in {"wasProcessed", "setLastSync", "failed",
                              "killed"}
                 /\ q.pc \in {"wasProcessed", "setLastSync"} =>
                      /\ q.skipped = r.skipped + 1
                      /\ q.call = r.call
                      /\ q.acted = r.acted /\ q.marked = r.marked
                      /\ q.createdContacts = r.createdContacts
                      /\ q.updatedContacts = r.updatedContacts
                      /\ q.pipelineItems = r.pipelineItems
    ]_vars

\* A pass has gone through a list of booking 1 and booking "1", has given
\* the first a contact and a document and has counted the second as skipped.
C29_Witness ==
  /\ pass[1].pc = "done"
  /\ pass[1].status = 200
  /\ Len(source) = 2
  /\ source[1].id = 1 /\ source[2].id = TextId(1)
  /\ pass[1].candidates = 2
  /\ pass[1].createdContacts + pass[1].updatedContacts = 1
  /\ pass[1].skipped = 1
  /\ DOMAIN processed = {1}
  /\ crm.contacts \cup crm.items \subseteq {1}

\* The two answers to the mailing-list question that are passed on.
Accepted == {"yes please", "no thank you"}

\* The answers, as received, to the questions whose title as received
\* contains "mailing" and whose answer as received is, but for letter case,
\* one of the two.
AnswersAsWritten(questions) ==
  {questions[i].answer :
     i \in {k \in 1..Len(questions) :
             /\ Includes(questions[k].question, "mailing")
             /\ ToLowerCase(questions[k].answer) \in Accepted}}

\* The trimmed answers to the questions whose title contains "mailing" in
\* any letter case and whose trimmed answer is, but for letter case, one of
\* the two.
AnswersTrimmed(questions) ==
  {Trim(questions[i].answer) :
     i \in {k \in 1..Len(questions) :
             /\ Includes(ToLowerCase(questions[k].question), "mailing")
             /\ ToLowerCase(Trim(questions[k].answer)) \in Accepted}}

\* The handling of the mailing-list answer in one step, `Answers` telling
\* which answers of a booking count: a pass goes to an EditContact call only after a
\* search that matched by email and for a booking with such an answer, and
\* the call writes it to the matched contact; a CreateContact call carries
\* such an answer when there is one and no blog field otherwise, and no
\* EditContact follows it.
MailingHandling(Answers(_)) ==
    \A p \in Handlers :
      LET r == pass[p]
          q == pass'[p]
          over == {"failed", "killed"}
      IN  /\ (Moved(p) /\ q.pc = "edit") =>
               /\ r.pc = "search"
               /\ FindMatch(q.call.results, r.email) # 0
               /\ Answers(r.questions) # {}
          /\ (r.pc = "edit" /\ Moved(p) /\ q.pc \notin over) =>
               /\ q.pc = "pipeline"
               /\ q.call.fn = "EditContact"
               /\ q.call.id = r.contactId
               /\ q.call.blog \in Answers(r.questions)
          /\ (r.pc = "create" /\ Moved(p) /\ q.pc \notin over) =>
               /\ q.pc = "pipeline"
               /\ q.call.fn = "CreateContact"
               /\ IF Answers(r.questions) = {}
                  THEN q.call.blog = ""
                  ELSE q.call.blog \in Answers(r.questions)
          /\ (q.call # r.call /\ q.call.fn = "EditContact") => r.pc = "edit"
          /\ (q.call # r.call /\ q.call.fn # "CreateContact"
              /\ Answers(r.questions) = {}) => q.call.blog = ""

\* C30 (mailing-list answer handling), as stated: the title contains
\* "mailing" and the answer equals "yes please" or "no thank you" but for
\* letter case.
C30_MailingAnswerAsWritten == [][MailingHandling(AnswersAsWritten)]_vars

\* C30 (mailing-list answer handling), with the title compared in any
\* letter case and the answer trimmed: an EditContact call is issued for a
\* booking only when its contact was matched by email and the booking has a
\* question whose title contains "mailing" with such an answer; for a new
\* contact the answer is sent in the one CreateContact call and no
\* EditContact is issued; any other answer changes no contact field.
C30_MailingAnswer == [][MailingHandling(AnswersTrimmed)]_vars

\* A pass has written the trimmed answer "YES PLEASE" of a booking to the
\* contact its search matched.
C30_Witness ==
  /\ pass[1].pc = "pipeline"
  /\ pass[1].call.fn = "EditContact"
  /\ pass[1].call.blog = "YES PLEASE"
  /\ pass[1].call.id = 7

\* The calls the webhook makes for a Contact.Create event, in their order.
HookSequence == <<"GetContact", "token", "createFolder", "EditContact">>

\* C27 (webhook sequence): a verified request whose payload is not a
\* Contact.Create event with a contact is answered 200 "ignored" without a
\* call; otherwise the calls made are the first of GetContact, token
\* exchange, folder creation, EditContact in this order, all for the first
\* contact of the payload; only the last call made can have failed, and then
\* the answer is 500 "error"; the answer is 200 "ok" after all four.
C27_WebhookSequence ==
  LET n == Len(hook.calls)
      body == hook.req.body
      create == /\ body.kind = "json" /\ body.event = "Contact.Create"
                /\ Len(body.contacts) > 0
  IN  /\ n <= Len(HookSequence)
      /\ \A k \in 1..n :
           /\ hook.calls[k].fn = HookSequence[k]
           /\ hook.calls[k].contact = body.contacts[1]
           /\ k < n => hook.calls[k].ok
      /\ n > 0 => create /\ ValidSignature(hook) /\ hook.req.hookSecret = ""
      /\ (n > 0 /\ ~hook.calls[n].ok) =>
           /\ hook.pc = "answered"
           /\ hook.status = 500 /\ hook.answer = "error"
      /\ (n > 0 /\ hook.calls[n].ok) =>
           IF n = Len(HookSequence)
           THEN /\ hook.pc = "answered"
                /\ hook.status = 200 /\ hook.answer = "ok"
           ELSE hook.pc \in HookCalling
      /\ (hook.pc = "answered" /\ ValidSignature(hook)
          /\ hook.req.hookSecret = "" /\ body.kind = "json" /\ ~create) =>
           /\ hook.status = 200 /\ hook.answer = "ignored"
           /\ n = 0

\* The event lists two contacts and has been answered 200 "ok" after the four
\* calls, all for the first.
C27_Witness ==
  /\ hook.pc = "answered"
  /\ hook.answer = "ok"
  /\ Len(hook.req.body.contacts) = 2
  /\ Len(hook.calls) = 4
  /\ hook.calls[4].fn = "EditContact"
  /\ hook.calls[4].contact = hook.req.body.contacts[1]

====
